---- MODULE Spec2Model ----
(***************************************************************************)
(* The rooms scheduler (rooms-scheduler/src/scheduler/algorithm.rs).       *)
(*                                                                         *)
(* run_scheduler is modelled step by step: the sort and feasibility check, *)
(* the head of the simulation loop, the release phase, one admission per   *)
(* step, and the clock increment.  The pure helpers of algorithm.rs are    *)
(* operators computed the way the code computes them.                      *)
(*                                                                         *)
(* The clock current_time_slot is a u32.  Its range is scaled down to      *)
(* 0 .. ClockModulus-1, so that the end of the range is reachable: there   *)
(* `current_time_slot += 1` aborts in a build with overflow checks (the    *)
(* dev profile) and wraps to 0 in a build without them (the release        *)
(* profile).  The build is fixed for a whole behaviour by overflow_checks. *)
(* The u16 counter of simultaneus_activities_in_timeslot is scaled in the  *)
(* same way to 0 .. CountModulus-1.                                        *)
(*                                                                         *)
(* Spec follows one call of run_scheduler, SpecTwice the same call made    *)
(* twice, SpecMax the counting of max_simultaneus_activities on lists long *)
(* enough to fill the counter, and SpecHttp a request on its way through   *)
(* the middleware of the route (router.rs, middlewares.rs, jwt.rs).        *)
(***************************************************************************)
EXTENDS Integers, Sequences, FiniteSets, TLC

(* ------------------------------- bounds -------------------------------- *)

\* Stands for 2^32: the clock and the time slots range over 0 .. ClockModulus-1.
ClockModulus == 6
\* Longest activity list of a request.
MaxActivities == 2
\* Longest room list of a request.
MaxRooms == 2
\* Longest time_slots list of a well-formed activity of a request.
MaxSlotsLen == 2
\* How often a build without overflow checks may wrap the clock in a behaviour.
MaxWraps == 1
\* Stands for 2^16: the u16 counter of simultaneus_activities_in_timeslot
\* ranges over 0 .. CountModulus-1.  It is above MaxActivities, as 2^16 is
\* above what a request body can hold; the lists of InitMax reach it.
CountModulus == 4

\* The attendances and capacities the requests are drawn from: 5 and 50
\* students and a capacity of 20 are the values of the spec's scenario B.
StudentCounts == {5, 10, 50}
Capacities == {5, 20}

(* ------------------------------ data model ----------------------------- *)

\* The `room` an activity carries before one is assigned to it.
NoRoom == [name |-> 0, capacity |-> 0]

\* models.rs Room: names matter through equality only, so the j-th room of a
\* request is named by a number in 1 .. j.
Room == [name : 1..MaxRooms, capacity : Capacities]

Slots == 0 .. (ClockModulus - 1)

\* time_slots [first .. last], contiguous and ascending.
SlotRange(first, last) == [i \in 1 .. (last - first + 1) |-> first + i - 1]

WellFormedSlots ==
    { SlotRange(f, l) : f \in Slots, l \in Slots } \ { <<>> }

\* Non-empty, contiguous and ascending.
IsWellFormed(ts) ==
    /\ ts # <<>>
    /\ \A i \in 1 .. (Len(ts) - 1) : ts[i + 1] = ts[i] + 1

\* The time_slots of the requests: the well-formed lists of up to
\* MaxSlotsLen slots, the empty list, a descending list and a list with a gap.
TimeSlotChoices ==
    { ts \in WellFormedSlots : Len(ts) <= MaxSlotsLen }
        \cup { <<>>, <<1, 0>>, <<0, 2>> }

\* models.rs Activity as it arrives in a request (subject is only printed);
\* ids matter through equality only, so the i-th activity has an id in 1 .. i.
Activity ==
    [id : 1..MaxActivities, room : {NoRoom},
     time_slots : TimeSlotChoices, students_count : StudentCounts]

\* models.rs ActivitiesRequest.activities
ActivityLists ==
    UNION { { s \in [1..n -> Activity] : \A i \in 1..n : s[i].id <= i }
            : n \in 0..MaxActivities }

\* models.rs ActivitiesRequest.rooms
RoomLists ==
    UNION { { s \in [1..n -> Room] : \A i \in 1..n : s[i].name <= i }
            : n \in 0..MaxRooms }

(* -------------------------------- state -------------------------------- *)

VARIABLES
    in_activities,                  \* the request: activities
    in_rooms,                       \* the request: rooms
    overflow_checks,                \* the build: TRUE aborts on overflow, FALSE wraps
    pc,                             \* where run_scheduler is
    activities,                     \* the sorted list, then the pending activities
    free_rooms,
    scheduled_activities,
    unscheduled_activities,
    started_activities,
    current_time_slot,
    activities_start_in_time_slot,  \* the batch of the iteration
    wraps,                          \* how often the clock has wrapped
    call,                           \* 1 for the first call, 2 for its repetition
    first_outcome,                  \* what the first call ended with
    max_simultaneus,                \* run_scheduler's local of that name
    config,                         \* CONFIG: the secret and algorithm of the tokens
    http_request,                   \* the request the router serves
    http_response,                  \* the response to it
    ran                             \* the middleware and handler that ran for it

vars == <<in_activities, in_rooms, overflow_checks, pc, activities, free_rooms,
          scheduled_activities, unscheduled_activities, started_activities,
          current_time_slot, activities_start_in_time_slot, wraps, call,
          first_outcome, max_simultaneus, config, http_request, http_response,
          ran>>

request == <<in_activities, in_rooms, overflow_checks>>

\* The HTTP exchange around a call: run_scheduler has no access to it.
exchange == <<config, http_request, http_response, ran>>

(* ------------------------------- helpers ------------------------------- *)

Last(s) == s[Len(s)]

Contains(s, x) == \E i \in 1..Len(s) : s[i] = x

\* What a count is when the counting has panicked.
CountPanic == 0 - 1

\* `count += 1` on a u16: the next value, a panic at the end of the range in
\* a build with overflow checks, a wrap to 0 in one without.
CountUp(count) ==
    IF count = CountPanic THEN CountPanic
    ELSE IF count + 1 < CountModulus THEN count + 1
    ELSE IF overflow_checks THEN CountPanic
    ELSE 0

RECURSIVE simultaneus_activities_in_timeslot(_, _)
\* the number of activities whose time_slots contain timeslot, counted one
\* by one in a u16
simultaneus_activities_in_timeslot(timeslot, acts) ==
    IF acts = <<>> THEN 0
    ELSE LET count == simultaneus_activities_in_timeslot(
                          timeslot, SubSeq(acts, 1, Len(acts) - 1))
         IN  IF Contains(Last(acts).time_slots, timeslot)
             THEN CountUp(count)
             ELSE count

RECURSIVE Flatten(_)
\* every time slot of every activity, in the order the two nested loops of
\* max_simultaneus_activities visit them
Flatten(acts) ==
    IF acts = <<>> THEN <<>> ELSE Head(acts).time_slots \o Flatten(Tail(acts))

RECURSIVE MaxScan_Inverted(_, _, _, _)
\* MaxScan with the comparison `count > max_count` turned round
MaxScan_Inverted(visited, acts, time_slots_readys, max_count) ==
    IF visited = <<>> THEN max_count
    ELSE LET time_slot == Head(visited)
             count == simultaneus_activities_in_timeslot(time_slot, acts)
         IN  IF time_slot \in time_slots_readys
             THEN MaxScan_Inverted(Tail(visited), acts, time_slots_readys, max_count)
             ELSE MaxScan_Inverted(Tail(visited), acts,
                                   time_slots_readys \cup {time_slot},
                                   IF count < max_count THEN count ELSE max_count)

RECURSIVE MaxScan(_, _, _, _)
\* the body of the nested loops: visited is the slots still to visit; a
\* panic of the counting ends the scan
MaxScan(visited, acts, time_slots_readys, max_count) ==
    IF visited = <<>> THEN max_count
    ELSE LET time_slot == Head(visited)
             count == simultaneus_activities_in_timeslot(time_slot, acts)
         IN  IF time_slot \in time_slots_readys
             THEN MaxScan(Tail(visited), acts, time_slots_readys, max_count)
             ELSE IF count = CountPanic
             THEN CountPanic
             ELSE MaxScan(Tail(visited), acts, time_slots_readys \cup {time_slot},
                          IF count > max_count THEN count ELSE max_count)

max_simultaneus_activities(acts) == MaxScan(Flatten(acts), acts, {}, 0)

RECURSIVE InsertSorted_Unstable(_, _)
\* InsertSorted with `<` for `<=`: a goes before the elements that compare equal
InsertSorted_Unstable(a, sorted) ==
    IF sorted = <<>> THEN <<a>>
    ELSE IF Last(sorted).students_count < a.students_count
         THEN Append(sorted, a)
         ELSE Append(InsertSorted_Unstable(a, SubSeq(sorted, 1, Len(sorted) - 1)),
                     Last(sorted))

RECURSIVE InsertSorted(_, _)
\* a goes after every element that does not compare greater than it
InsertSorted(a, sorted) ==
    IF sorted = <<>> THEN <<a>>
    ELSE IF Last(sorted).students_count <= a.students_count
         THEN Append(sorted, a)
         ELSE Append(InsertSorted(a, SubSeq(sorted, 1, Len(sorted) - 1)), Last(sorted))

RECURSIVE sort_activities(_)
\* Vec::sort_by on students_count: ascending and stable
sort_activities(acts) ==
    IF acts = <<>> THEN <<>>
    ELSE InsertSorted(Last(acts), sort_activities(SubSeq(acts, 1, Len(acts) - 1)))

distance(x1, x0) == IF x1 > x0 THEN x1 - x0 ELSE x0 - x1

\* get_best_room taking the last of the rooms at the least distance
get_best_room_LastMin(activity, rooms) ==
    LET key(i) == distance(rooms[i].capacity, activity.students_count)
        best == CHOOSE i \in 1..Len(rooms) :
                    /\ \A j \in 1..Len(rooms) : key(i) <= key(j)
                    /\ \A j \in (i + 1)..Len(rooms) : key(j) > key(i)
    IN  rooms[best]

\* get_best_room over a collection whose iteration order differs from call to
\* call, as a hashed set's does
get_best_room_PerCallOrder(activity, rooms) ==
    LET key(i) == distance(rooms[i].capacity, activity.students_count)
        best == CHOOSE i \in 1..Len(rooms) :
                    /\ \A j \in 1..Len(rooms) : key(i) <= key(j)
                    /\ IF call = 1
                       THEN \A j \in 1..(i - 1) : key(j) > key(i)
                       ELSE \A j \in (i + 1)..Len(rooms) : key(j) > key(i)
    IN  rooms[best]

\* Iterator::min_by_key on the distance: the first of the rooms at the least
\* distance.  The caller passes a non-empty list.
get_best_room(activity, rooms) ==
    LET key(i) == distance(rooms[i].capacity, activity.students_count)
        best == CHOOSE i \in 1..Len(rooms) :
                    /\ \A j \in 1..Len(rooms) : key(i) <= key(j)
                    /\ \A j \in 1..(i - 1) : key(j) > key(i)
    IN  rooms[best]

\* available_rooms without the filter on the capacity
available_rooms_Unfiltered(activity, rooms) == rooms

\* free_rooms filtered to the rooms that hold the activity
available_rooms(activity, rooms) ==
    SelectSeq(rooms, LAMBDA r : r.capacity >= activity.students_count)

\* Vec::retain(|a| a.id != id)
RetainOtherId(acts, id) == SelectSeq(acts, LAMBDA a : a.id # id)

\* RetainOtherName that removes nothing: the chosen room stays free
RetainOtherName_KeepsAll(rooms, name) == rooms

\* Vec::retain(|r| r.name != name)
RetainOtherName(rooms, name) == SelectSeq(rooms, LAMBDA r : r.name # name)

\* EndsWith looking at the first slot instead of the last
EndsWith_Head(ts, slot) == ts # <<>> /\ Head(ts) = slot

\* time_slots.ends_with(&[slot])
EndsWith(ts, slot) == ts # <<>> /\ Last(ts) = slot

RECURSIVE ReleaseLoop_KeepsRoom(_, _, _)
\* ReleaseLoop without `free_rooms.push(activity.room.clone())`
ReleaseLoop_KeepsRoom(snapshot, prev_slot, st) ==
    IF snapshot = <<>> THEN st
    ELSE LET activity == Head(snapshot)
         IN  IF ~EndsWith(activity.time_slots, prev_slot)
             THEN ReleaseLoop_KeepsRoom(Tail(snapshot), prev_slot, st)
             ELSE ReleaseLoop_KeepsRoom(Tail(snapshot), prev_slot,
                      [free    |-> st.free,
                       started |-> RetainOtherId(st.started, activity.id),
                       pending |-> RetainOtherId(st.pending, activity.id)])

RECURSIVE ReleaseLoop(_, _, _)
\* The release loop over started_activities.clone(): snapshot is what is left
\* of the clone, st = [free, started, pending] the three lists it changes.
ReleaseLoop(snapshot, prev_slot, st) ==
    IF snapshot = <<>> THEN st
    ELSE LET activity == Head(snapshot)
         IN  IF ~EndsWith(activity.time_slots, prev_slot)
             THEN ReleaseLoop(Tail(snapshot), prev_slot, st)
             ELSE ReleaseLoop(Tail(snapshot), prev_slot,
                      [free    |-> Append(st.free, activity.room),
                       started |-> RetainOtherId(st.started, activity.id),
                       pending |-> RetainOtherId(st.pending, activity.id)])

(* ------------------------------ the call ------------------------------- *)

\* run_scheduler's locals as they are before the call starts
LocalsFresh ==
    /\ activities = <<>>
    /\ free_rooms = <<>>
    /\ scheduled_activities = <<>>
    /\ unscheduled_activities = <<>>
    /\ started_activities = <<>>
    /\ current_time_slot = 0
    /\ activities_start_in_time_slot = <<>>
    /\ wraps = 0
    /\ max_simultaneus = 0

\* CONFIG with the defaults of config.rs.
DefaultConfig == [jwt_secret |-> "default_secret", jwt_algorithm |-> "HS256"]

\* run_scheduler called on its own: no HTTP exchange around it.
NoExchange ==
    /\ config = DefaultConfig
    /\ http_request = <<>>
    /\ http_response = <<>>
    /\ ran = <<>>

Init ==
    /\ in_activities \in ActivityLists
    /\ in_rooms \in RoomLists
    /\ overflow_checks \in BOOLEAN
    /\ pc = "start"
    /\ LocalsFresh
    /\ call = 1
    /\ first_outcome = <<>>
    /\ NoExchange

\* The call has ended: Ok((scheduled, unscheduled)), the BadRequest error,
\* the InternalServerError, or a panic that aborts it.
Ended == pc \in {"done", "error", "internal_error", "panic"}

Outcome ==
    IF pc = "done"
    THEN <<"Ok", scheduled_activities, unscheduled_activities>>
    ELSE <<pc>>

(* ------------------------------- actions ------------------------------- *)

\* Start with `<=` for `<` in the feasibility check
Start_GateOffByOne ==
    /\ pc = "start"
    /\ LET sorted == sort_activities(in_activities)
           counted == max_simultaneus_activities(sorted)
       IN  /\ activities' = sorted
           /\ IF counted = CountPanic
              THEN /\ pc' = "panic"
                   /\ UNCHANGED <<max_simultaneus, free_rooms>>
              ELSE IF Len(in_rooms) <= counted
              THEN /\ pc' = "error"
                   /\ max_simultaneus' = counted
                   /\ free_rooms' = free_rooms
              ELSE /\ pc' = "loop"
                   /\ max_simultaneus' = counted
                   /\ free_rooms' = in_rooms
    /\ UNCHANGED <<request, exchange,
                   scheduled_activities, unscheduled_activities,
                   started_activities, current_time_slot,
                   activities_start_in_time_slot, wraps, call, first_outcome>>

\* Lines 74-90: sort, feasibility check, the locals of the simulation.  A
\* panic of the counting aborts the call.
Start ==
    /\ pc = "start"
    /\ LET sorted == sort_activities(in_activities)
           counted == max_simultaneus_activities(sorted)
       IN  /\ activities' = sorted
           /\ IF counted = CountPanic
              THEN /\ pc' = "panic"
                   /\ UNCHANGED <<max_simultaneus, free_rooms>>
              ELSE IF Len(in_rooms) < counted
              THEN /\ pc' = "error"
                   /\ max_simultaneus' = counted
                   /\ free_rooms' = free_rooms
              ELSE /\ pc' = "loop"
                   /\ max_simultaneus' = counted
                   /\ free_rooms' = in_rooms
    /\ UNCHANGED <<request, exchange,
                   scheduled_activities, unscheduled_activities,
                   started_activities, current_time_slot,
                   activities_start_in_time_slot, wraps, call, first_outcome>>

\* Line 92 with no activity pending, line 146.
LoopExit ==
    /\ pc = "loop"
    /\ activities = <<>>
    /\ pc' = "done"
    /\ UNCHANGED <<request, exchange, max_simultaneus,
                   activities, free_rooms, scheduled_activities,
                   unscheduled_activities, started_activities, current_time_slot,
                   activities_start_in_time_slot, wraps, call, first_outcome>>

\* Line 97: a.time_slots[0] of a pending activity without time slots is an
\* index out of bounds.
StartSlotPanic ==
    /\ pc = "loop"
    /\ activities # <<>>
    /\ \E i \in 1..Len(activities) : activities[i].time_slots = <<>>
    /\ pc' = "panic"
    /\ UNCHANGED <<request, exchange, max_simultaneus,
                   activities, free_rooms, scheduled_activities,
                   unscheduled_activities, started_activities, current_time_slot,
                   activities_start_in_time_slot, wraps, call, first_outcome>>

\* StartingNow with `<=` for `==`: every pending activity whose first slot has come
StartingNow_UpTo ==
    SelectSeq(activities, LAMBDA a : a.time_slots[1] <= current_time_slot)

\* Lines 94-98: the pending activities whose first slot is the current one.
StartingNow ==
    SelectSeq(activities, LAMBDA a : a.time_slots[1] = current_time_slot)

CanFilter ==
    /\ pc = "loop"
    /\ activities # <<>>
    /\ \A i \in 1..Len(activities) : activities[i].time_slots # <<>>

\* `current_time_slot += 1` on a u32: the next value, an abort at the end of
\* the range in a build with overflow checks, a wrap to 0 in one without.
\* A behaviour wraps at most MaxWraps times.
Increment(next_pc) ==
    IF current_time_slot + 1 < ClockModulus
    THEN /\ current_time_slot' = current_time_slot + 1
         /\ pc' = next_pc
         /\ wraps' = wraps
    ELSE IF overflow_checks
    THEN /\ current_time_slot' = current_time_slot
         /\ pc' = "panic"
         /\ wraps' = wraps
    ELSE /\ wraps < MaxWraps
         /\ current_time_slot' = 0
         /\ pc' = next_pc
         /\ wraps' = wraps + 1

\* Lines 100-103: nothing starts and nothing is running.
IdleTick ==
    /\ CanFilter
    /\ StartingNow = <<>>
    /\ started_activities = <<>>
    /\ Increment("loop")
    /\ UNCHANGED <<request, exchange, max_simultaneus,
                   activities, free_rooms, scheduled_activities,
                   unscheduled_activities, started_activities,
                   activities_start_in_time_slot, call, first_outcome>>

\* Lines 94-100 when the iteration is not idle.
EnterIteration ==
    /\ CanFilter
    /\ ~(StartingNow = <<>> /\ started_activities = <<>>)
    /\ activities_start_in_time_slot' = StartingNow
    /\ pc' = "release"
    /\ UNCHANGED <<request, exchange, max_simultaneus,
                   activities, free_rooms, scheduled_activities,
                   unscheduled_activities, started_activities, current_time_slot,
                   wraps, call, first_outcome>>

\* Lines 105-112: the release phase.  `current_time_slot - 1` is evaluated
\* once per started activity: at slot 0 it aborts a build with overflow
\* checks and is the last slot of the range in one without.
ReleasePhase ==
    /\ pc = "release"
    /\ IF started_activities # <<>> /\ current_time_slot = 0 /\ overflow_checks
       THEN /\ pc' = "panic"
            /\ UNCHANGED <<free_rooms, started_activities, activities>>
       ELSE LET prev_slot == (current_time_slot - 1) % ClockModulus
                st == ReleaseLoop(started_activities, prev_slot,
                                  [free    |-> free_rooms,
                                   started |-> started_activities,
                                   pending |-> activities])
            IN  /\ free_rooms' = st.free
                /\ started_activities' = st.started
                /\ activities' = st.pending
                /\ pc' = "admit"
    /\ UNCHANGED <<request, exchange, max_simultaneus,
                   scheduled_activities, unscheduled_activities,
                   current_time_slot, activities_start_in_time_slot, wraps, call,
                   first_outcome>>

\* pop_activity, lines 62-67: Vec::pop as an option (<<>> is None), which
\* ok_or turns into the InternalServerError.
pop_activity(batch) == IF batch = <<>> THEN <<>> ELSE <<Last(batch)>>

\* no_room_fits that never sends an activity to unscheduled
no_room_fits_Never(available) == FALSE

\* Line 122: available_rooms.is_empty()
no_room_fits(available) == available = <<>>

\* Lines 114-141, one turn of the admission loop: pop the last activity of
\* the batch; without a room that holds it, it goes to unscheduled (and stays
\* pending); else it gets the best room and goes to started and scheduled.
\* A failed pop returns the InternalServerError, and get_best_room's unwrap
\* panics when min_by_key has no room to choose from.
AdmitOne ==
    /\ pc = "admit"
    /\ activities_start_in_time_slot # <<>>
    /\ LET popped == pop_activity(activities_start_in_time_slot)
           activity == popped[1]
           available == available_rooms(activity, free_rooms)
           best_room == get_best_room(activity, available)
           assigned == [activity EXCEPT !.room = best_room]
       IN  IF popped = <<>>
           THEN /\ pc' = "internal_error"
                /\ UNCHANGED <<activities_start_in_time_slot, free_rooms,
                               started_activities, scheduled_activities,
                               unscheduled_activities>>
           ELSE /\ activities_start_in_time_slot' =
                       SubSeq(activities_start_in_time_slot, 1,
                              Len(activities_start_in_time_slot) - 1)
                /\ IF no_room_fits(available)
                   THEN /\ unscheduled_activities' =
                               Append(unscheduled_activities, activity)
                        /\ UNCHANGED <<pc, free_rooms, started_activities,
                                       scheduled_activities>>
                   ELSE IF available = <<>>
                   THEN /\ pc' = "panic"
                        /\ UNCHANGED <<free_rooms, started_activities,
                                       scheduled_activities,
                                       unscheduled_activities>>
                   ELSE /\ free_rooms' = RetainOtherName(free_rooms, best_room.name)
                        /\ started_activities' = Append(started_activities, assigned)
                        /\ scheduled_activities' =
                               Append(scheduled_activities, assigned)
                        /\ UNCHANGED <<pc, unscheduled_activities>>
    /\ UNCHANGED <<request, exchange, max_simultaneus,
                   activities, current_time_slot, wraps, call,
                   first_outcome>>

\* Line 143: the batch is empty, the clock advances.
EndIteration ==
    /\ pc = "admit"
    /\ activities_start_in_time_slot = <<>>
    /\ Increment("loop")
    /\ UNCHANGED <<request, exchange, max_simultaneus,
                   activities, free_rooms, scheduled_activities,
                   unscheduled_activities, started_activities,
                   activities_start_in_time_slot, call, first_outcome>>

\* The controller calls run_scheduler again with the same request: every
\* local is built anew.
CallAgain ==
    /\ Ended
    /\ call = 1
    /\ call' = 2
    /\ first_outcome' = Outcome
    /\ pc' = "start"
    /\ activities' = <<>>
    /\ free_rooms' = <<>>
    /\ scheduled_activities' = <<>>
    /\ unscheduled_activities' = <<>>
    /\ started_activities' = <<>>
    /\ current_time_slot' = 0
    /\ activities_start_in_time_slot' = <<>>
    /\ wraps' = 0
    /\ max_simultaneus' = 0
    /\ UNCHANGED <<request, exchange>>

Next ==
    \/ Start
    \/ LoopExit
    \/ StartSlotPanic
    \/ IdleTick
    \/ EnterIteration
    \/ ReleasePhase
    \/ AdmitOne
    \/ EndIteration

Spec == Init /\ [][Next]_vars

NextTwice == Next \/ CallAgain

SpecTwice == Init /\ [][NextTwice]_vars

\* The time_slots and attendances of the lists max_simultaneus_activities is
\* applied to on its own: with and without slots, shared and not, repeated.
CountedSlots == {<<>>, <<0>>, <<1>>, <<0, 1>>, <<1, 1>>}

CountedStudents == {5, 10}

\* Activity lists up to the length at which the u16 counter is full.
CountedLists ==
    UNION { { [i \in 1..n |-> [id |-> i, room |-> NoRoom,
                               time_slots |-> f[i][1],
                               students_count |-> f[i][2]]] :
                  f \in [1..n -> CountedSlots \X CountedStudents] } :
            n \in 0..CountModulus }

\* run_scheduler called with such a list and no room: the call is followed
\* up to the feasibility check, which holds the value counted.
InitMax ==
    /\ in_activities \in CountedLists
    /\ in_rooms = <<>>
    /\ overflow_checks \in BOOLEAN
    /\ pc = "start"
    /\ LocalsFresh
    /\ call = 1
    /\ first_outcome = <<>>
    /\ NoExchange

NextMax == Start

SpecMax == InitMax /\ [][NextMax]_vars

(* --------------------------- the HTTP exchange ------------------------- *)

\* An Option is <<>> for None and <<x>> for Some(x).

\* The claims of a token: sub, user_id, rol and type (exp is judged by the
\* token's expired flag).
ClaimsChoices ==
    [sub : {"", "u1"}, user_id : {0, 7},
     rol : {"", "administrator", "Administrator", "student"},
     token_type : {"access", "refresh"}]

\* What follows the scheme in an Authorization header: blanks only, text
\* that is no JWT, or a JWT with the algorithm of its header, the key it is
\* signed with, whether its exp has passed, and its claims.
TokenTexts ==
    {[kind |-> "blank"], [kind |-> "garbage"]} \cup
    [kind : {"jwt"}, alg : {"HS256", "HS512"},
     key : {"default_secret", "other_secret"}, expired : BOOLEAN,
     claims : ClaimsChoices]

\* An Authorization header value: whether it is visible ASCII, and its parts
\* before and after the first space (one part when it has no space).
HeaderValues ==
    { [ascii |-> TRUE, parts |-> <<"Bearer">>],
      [ascii |-> FALSE, parts |-> <<"Bearer", [kind |-> "garbage"]>>] } \cup
    { [ascii |-> TRUE, parts |-> <<scheme, text>>] :
          scheme \in {"Bearer", "bearer", "Basic"}, text \in TokenTexts }

\* The requests to POST /api/v1/rooms/schedule: with or without the header,
\* and with nothing in the extensions.
Requests ==
    { [authorization |-> h, extensions |-> <<>>] :
          h \in {<<>>} \cup { <<v>> : v \in HeaderValues } }

Configs ==
    { [jwt_secret |-> "default_secret", jwt_algorithm |-> a] :
          a \in {"HS256", "RS256"} }

\* The lower-case form eq_ignore_ascii_case compares.
AsciiLower(text) ==
    CASE text = "Bearer" -> "bearer"
      [] text = "Basic" -> "basic"
      [] text = "Administrator" -> "administrator"
      [] OTHER -> text

\* extract_bearer_token, middlewares.rs lines 46-52.
extract_bearer_token(header_value) ==
    IF Len(header_value.parts) < 2 THEN <<>>
    ELSE IF AsciiLower(header_value.parts[1]) # "bearer" THEN <<>>
    ELSE IF header_value.parts[2].kind = "blank" THEN <<>>
    ELSE <<header_value.parts[2]>>

\* jsonwebtoken's decode under Validation::new(algorithm) with validate_exp:
\* the text is a JWT of that algorithm, signed with the key, not expired.
decode(token, key, algorithm) ==
    IF /\ token.kind = "jwt"
       /\ token.alg = algorithm
       /\ token.key = key
       /\ ~token.expired
    THEN <<token.claims>>
    ELSE <<>>

\* verify_token, jwt.rs lines 19-46: the claims, or <<>> for every error.
verify_token(token) ==
    IF config.jwt_algorithm \notin {"HS256", "HS384", "HS512"} THEN <<>>
    ELSE LET decoded == decode(token, config.jwt_secret, config.jwt_algorithm)
             claims == decoded[1]
         IN  IF decoded = <<>> THEN <<>>
             ELSE IF claims.token_type # "access" THEN <<>>
             ELSE IF claims.sub = "" \/ claims.rol = "" \/ claims.user_id <= 0
             THEN <<>>
             ELSE <<claims>>

\* require_access_token, middlewares.rs lines 12-31: <<>> when it answers
\* Unauthorized, else the request it hands to next.run, the claims in its
\* extensions.
require_access_token(req) ==
    LET header == req.authorization
        token_encoded ==
            IF header = <<>> THEN <<>>
            ELSE IF ~header[1].ascii THEN <<>>
            ELSE extract_bearer_token(header[1])
        claims == verify_token(token_encoded[1])
    IN  IF token_encoded = <<>> THEN <<>>
        ELSE IF claims = <<>> THEN <<>>
        ELSE <<[req EXCEPT !.extensions = claims]>>

\* require_administrator_role that lets a request without claims through
require_administrator_role_Lenient(req) ==
    IF req.extensions = <<>> THEN <<req>>
    ELSE IF AsciiLower(req.extensions[1].rol) # "administrator" THEN <<>>
    ELSE <<req>>

\* require_administrator_role, middlewares.rs lines 33-44: <<>> when it
\* answers Unauthorized, else the request it hands to next.run.
require_administrator_role(req) ==
    IF req.extensions = <<>> THEN <<>>
    ELSE IF AsciiLower(req.extensions[1].rol) # "administrator" THEN <<>>
    ELSE <<req>>

\* create_router, router.rs lines 10-16: each route_layer wraps what the
\* method router holds so far, so the layer added last,
\* require_administrator_role, is the outermost and runs first; what it
\* hands on goes to require_access_token, and what that hands on goes to
\* rooms_scheduler_controller, which calls run_scheduler.
route(req) ==
    LET outer == require_administrator_role(req)
        inner == require_access_token(outer[1])
    IN  IF outer = <<>>
        THEN [status |-> "Unauthorized",
              ran |-> <<"require_administrator_role">>]
        ELSE IF inner = <<>>
        THEN [status |-> "Unauthorized",
              ran |-> <<"require_administrator_role", "require_access_token">>]
        ELSE [status |-> "run_scheduler",
              ran |-> <<"require_administrator_role", "require_access_token",
                        "rooms_scheduler_controller">>]

\* A request has arrived at the route and nothing has run for it.
InitHttp ==
    /\ config \in Configs
    /\ http_request \in Requests
    /\ http_response = <<>>
    /\ ran = <<>>
    /\ pc = "received"
    /\ in_activities = <<>>
    /\ in_rooms = <<>>
    /\ overflow_checks = TRUE
    /\ LocalsFresh
    /\ call = 1
    /\ first_outcome = <<>>

\* The router serves the request: the middleware stack answers it, or the
\* controller is reached and the call of run_scheduler starts.
Serve ==
    /\ pc = "received"
    /\ LET result == route(http_request)
       IN  /\ ran' = result.ran
           /\ IF result.status = "run_scheduler"
              THEN /\ pc' = "start"
                   /\ http_response' = http_response
              ELSE /\ pc' = "responded"
                   /\ http_response' = <<result.status>>
    /\ UNCHANGED <<request, config, http_request, activities, free_rooms,
                   scheduled_activities, unscheduled_activities,
                   started_activities, current_time_slot,
                   activities_start_in_time_slot, wraps, call, first_outcome,
                   max_simultaneus>>

NextHttp == Serve

SpecHttp == InitHttp /\ [][NextHttp]_vars

(* ------------------------- what the claims speak of -------------------- *)

UniqueIds ==
    \A i, j \in 1..Len(in_activities) :
        i # j => in_activities[i].id # in_activities[j].id

UniqueNames ==
    \A i, j \in 1..Len(in_rooms) : i # j => in_rooms[i].name # in_rooms[j].name

AllWellFormed ==
    \A i \in 1..Len(in_activities) : IsWellFormed(in_activities[i].time_slots)

SlotsOf(a) == { a.time_slots[k] : k \in 1..Len(a.time_slots) }

ShareSlot(a, b) == SlotsOf(a) \cap SlotsOf(b) # {}

\* The greatest number of activities that have one time slot in common.
MaxConcurrent(acts) ==
    LET occurring == UNION { SlotsOf(acts[i]) : i \in 1..Len(acts) }
        active(t) == Cardinality({ i \in 1..Len(acts) : t \in SlotsOf(acts[i]) })
    IN  IF occurring = {} THEN 0
        ELSE CHOOSE n \in 0..Len(acts) :
                 /\ \E t \in occurring : active(t) = n
                 /\ \A t \in occurring : active(t) <= n

\* The call is past the feasibility check and has not ended.
Simulating == pc \in {"loop", "release", "admit"}

(* -------------------------------- claims ------------------------------- *)

\* C1: no double-booking.  For a request with unique room names, unique
\* activity ids and non-empty contiguous ascending time_slots, no room is
\* held by two started activities in any state, and in the returned
\* scheduled list two distinct activities that share a time slot have rooms
\* with different names.
C1_NoDoubleBooking ==
    (UniqueNames /\ UniqueIds /\ AllWellFormed) =>
        /\ \A i, j \in 1..Len(started_activities) :
               i # j => started_activities[i].room.name # started_activities[j].room.name
        /\ pc = "done" =>
               \A i, j \in 1..Len(scheduled_activities) :
                   (/\ scheduled_activities[i].id # scheduled_activities[j].id
                    /\ ShareSlot(scheduled_activities[i], scheduled_activities[j]))
                   => scheduled_activities[i].room.name # scheduled_activities[j].room.name

\* How often the activity with this id occurs in a list.
Occurrences(acts, id) == Cardinality({ k \in 1..Len(acts) : acts[k].id = id })

\* C2: an activity that finds no room goes to unscheduled and the call still
\* ends successfully: once an activity is unscheduled the call does not abort.
C2_UnscheduledStillSucceeds ==
    unscheduled_activities # <<>> => pc # "panic"

\* C3: partition.  When the call returns successfully for a request with
\* unique ids, every input activity occurs exactly once in scheduled and
\* unscheduled together.
C3_Partition ==
    (pc = "done" /\ UniqueIds) =>
        \A i \in 1..Len(in_activities) :
            Occurrences(scheduled_activities, in_activities[i].id)
              + Occurrences(unscheduled_activities, in_activities[i].id) = 1

C5_CapacityInvariant ==
    /\ \A i \in 1..Len(started_activities) :
           started_activities[i].room.capacity >= started_activities[i].students_count
    /\ \A i \in 1..Len(scheduled_activities) :
           scheduled_activities[i].room.capacity >= scheduled_activities[i].students_count

C5_Witness ==
    /\ pc = "done"
    /\ Len(scheduled_activities) = 2
    /\ started_activities = <<>>
    /\ \E i \in 1..Len(in_rooms) : in_rooms[i].capacity < scheduled_activities[1].students_count

\* The request of the spec's scenario B.
ScenarioB ==
    /\ in_activities =
           << [id |-> 1, room |-> NoRoom, time_slots |-> <<0>>, students_count |-> 5],
              [id |-> 2, room |-> NoRoom, time_slots |-> <<0>>, students_count |-> 50] >>
    /\ in_rooms = << [name |-> 1, capacity |-> 20] >>

\* C6 as claimed: scenario B returns successfully, the activity of 5 students
\* scheduled in the room of capacity 20, the activity of 50 unscheduled.
C6_ScenarioB ==
    (ScenarioB /\ Ended) =>
        /\ pc = "done"
        /\ Len(scheduled_activities) = 1
        /\ scheduled_activities[1].students_count = 5
        /\ scheduled_activities[1].room.capacity = 20
        /\ Len(unscheduled_activities) = 1
        /\ unscheduled_activities[1].students_count = 50

\* C6 as amended: scenario B has two activities in slot 0 and one room, so it
\* ends with the capacity-infeasible error and nothing scheduled or
\* unscheduled.
C6_ScenarioBRejected ==
    (ScenarioB /\ pc # "start") =>
        /\ pc = "error"
        /\ scheduled_activities = <<>>
        /\ unscheduled_activities = <<>>

C6_Witness == ScenarioB /\ pc = "error"

\* The slot before the current one, as the release phase computes it.
PrevSlot == (current_time_slot - 1) % ClockModulus

\* The spec's scenario C: two activities on slots [0,1] and [2,3] and a single
\* room that holds either.
ScenarioC ==
    /\ Len(in_activities) = 2
    /\ in_activities[1].id # in_activities[2].id
    /\ in_activities[1].time_slots = <<0, 1>>
    /\ in_activities[2].time_slots = <<2, 3>>
    /\ Len(in_rooms) = 1
    /\ in_rooms[1].capacity >= in_activities[1].students_count
    /\ in_rooms[1].capacity >= in_activities[2].students_count

ScenarioCResult ==
    /\ Len(scheduled_activities) = 2
    /\ scheduled_activities[1].time_slots = <<0, 1>>
    /\ scheduled_activities[2].time_slots = <<2, 3>>
    /\ scheduled_activities[1].room = in_rooms[1]
    /\ scheduled_activities[2].room = in_rooms[1]
    /\ unscheduled_activities = <<>>

\* C7: room reuse.  The admission phase is entered from the release phase
\* only, and nothing is admitted outside it; the release phase takes every
\* started activity whose last slot is the previous slot out of started and
\* puts its room into free_rooms; and scenario C returns both activities
\* scheduled into the one room.
C7_RoomReuse ==
    [][ /\ (pc' = "admit" /\ pc # "admit") => pc = "release"
        /\ (\/ scheduled_activities' # scheduled_activities
            \/ unscheduled_activities' # unscheduled_activities) => pc = "admit"
        /\ (pc = "release" /\ pc' = "admit") =>
               \A i \in 1..Len(started_activities) :
                   EndsWith(started_activities[i].time_slots, PrevSlot) =>
                       /\ \E k \in 1..Len(free_rooms') :
                              free_rooms'[k] = started_activities[i].room
                       /\ \A k \in 1..Len(started_activities') :
                              started_activities'[k].id # started_activities[i].id
        /\ (ScenarioC /\ Ended') => (pc' = "done" /\ ScenarioCResult')
      ]_vars

C7_Witness == ScenarioC /\ pc = "done" /\ ScenarioCResult

\* What C8 asks of the request.
FullSuccessRequest ==
    /\ UniqueIds
    /\ UniqueNames
    /\ AllWellFormed
    /\ Len(in_rooms) >= MaxConcurrent(in_activities)
    /\ \A i \in 1..Len(in_activities), j \in 1..Len(in_rooms) :
           in_rooms[j].capacity >= in_activities[i].students_count

AllScheduled ==
    /\ unscheduled_activities = <<>>
    /\ \A i \in 1..Len(in_activities) :
           Occurrences(scheduled_activities, in_activities[i].id) = 1
    /\ \A k \in 1..Len(scheduled_activities) :
           \E j \in 1..Len(in_rooms) : scheduled_activities[k].room = in_rooms[j]

\* C8: full success.  A request with unique ids and names, well-formed
\* time_slots, at least max_concurrent rooms and every room holding every
\* activity never ends but successfully, with every activity scheduled.
C8_FullSuccess ==
    FullSuccessRequest =>
        /\ pc \notin {"error", "panic"}
        /\ pc = "done" => AllScheduled

\* C9: best fit.  The room an admitted activity gets is a free room that
\* holds it, at the least capacity distance among those, and the first such
\* in the order of free_rooms; free_rooms starts as the request's rooms, loses
\* the rooms of that name at an admission and is extended at its end by the
\* release phase.
C9_BestFit ==
    [][ /\ (pc = "admit" /\ scheduled_activities' # scheduled_activities) =>
               LET a == Last(scheduled_activities')
                   r == a.room
                   fits(q) == free_rooms[q].capacity >= a.students_count
                   dist(q) == free_rooms[q].capacity - a.students_count
               IN  /\ scheduled_activities' =
                          Append(scheduled_activities,
                                 [Last(activities_start_in_time_slot) EXCEPT !.room = r])
                   /\ \E p \in 1..Len(free_rooms) :
                          /\ free_rooms[p] = r
                          /\ fits(p)
                          /\ \A q \in 1..Len(free_rooms) : fits(q) => dist(p) <= dist(q)
                          /\ \A q \in 1..(p - 1) : fits(q) => dist(p) < dist(q)
                   /\ free_rooms' = RetainOtherName(free_rooms, r.name)
        /\ (pc = "start" /\ pc' = "loop") => free_rooms' = in_rooms
        /\ pc = "release" =>
               /\ Len(free_rooms') >= Len(free_rooms)
               /\ SubSeq(free_rooms', 1, Len(free_rooms)) = free_rooms
      ]_vars

\* A tie resolved by the order of free_rooms after a release: the first room
\* was taken and released, which put it behind the second, and the next
\* activity got the second, equally large, room.
C9_Witness ==
    /\ Len(in_rooms) = 2
    /\ in_rooms[1].name # in_rooms[2].name
    /\ in_rooms[1].capacity = in_rooms[2].capacity
    /\ Len(scheduled_activities) = 2
    /\ scheduled_activities[1].room = in_rooms[1]
    /\ scheduled_activities[2].room = in_rooms[2]
    /\ ~ShareSlot(scheduled_activities[1], scheduled_activities[2])
    /\ free_rooms = << in_rooms[1] >>

IdsOf(acts) == { acts[k].id : k \in 1..Len(acts) }

\* An activity of unscheduled is stuck: still pending, not started, not in
\* the batch the iteration is about to admit, and the call has not returned.
Stuck(a) ==
    /\ a.id \in IdsOf(activities)
    /\ a.id \notin IdsOf(started_activities)
    /\ (pc = "release" => a.id \notin IdsOf(activities_start_in_time_slot))
    /\ pc # "done"

IsStableSortOf(out, inp) ==
    /\ Len(out) = Len(inp)
    /\ \E p \in Permutations(1..Len(inp)) :
           /\ \A i \in 1..Len(inp) : out[i] = inp[p[i]]
           /\ \A i, j \in 1..Len(inp) :
                  i < j => \/ out[i].students_count < out[j].students_count
                           \/ /\ out[i].students_count = out[j].students_count
                              /\ p[i] < p[j]

\* The position in the request of the activity with this id.
InputPos(id) == CHOOSE i \in 1..Len(in_activities) : in_activities[i].id = id

\* a picks before b: it has more students, or as many and comes later in the
\* request.
PicksBefore(a, b) ==
    \/ a.students_count > b.students_count
    \/ /\ a.students_count = b.students_count
       /\ InputPos(a.id) > InputPos(b.id)

\* One turn of the admission loop has handled an activity of the batch.
AdmissionTurn ==
    /\ pc = "admit"
    /\ activities_start_in_time_slot' # activities_start_in_time_slot

\* The activity a turn of the admission loop has handled, as the lists of
\* results record it.
Handled ==
    IF scheduled_activities' # scheduled_activities
    THEN [Last(scheduled_activities') EXCEPT !.room = NoRoom]
    ELSE Last(unscheduled_activities')

\* C13: admission order within a slot.  The pending list is the request
\* sorted ascending by students_count with ties in input order; each turn of
\* the admission loop takes from the batch an activity that picks before
\* every activity left in the batch (more students, or as many and later in
\* the request) and appends it to the end of scheduled or of unscheduled.
C13_AdmissionOrder ==
    [][ /\ pc = "start" => IsStableSortOf(activities', in_activities)
        /\ AdmissionTurn =>
              LET rest == activities_start_in_time_slot'
              IN  /\ Len(rest) = Len(activities_start_in_time_slot) - 1
                  /\ \/ /\ scheduled_activities' # scheduled_activities
                        /\ unscheduled_activities' = unscheduled_activities
                        /\ SubSeq(scheduled_activities', 1, Len(scheduled_activities))
                               = scheduled_activities
                        /\ Len(scheduled_activities') = Len(scheduled_activities) + 1
                     \/ /\ scheduled_activities' = scheduled_activities
                        /\ unscheduled_activities'
                               = Append(unscheduled_activities, Handled)
                  /\ Contains(activities_start_in_time_slot, Handled)
                  /\ Handled.time_slots[1] = current_time_slot
                  /\ UniqueIds =>
                         \A k \in 1..Len(rest) : PicksBefore(Handled, rest[k])
      ]_vars

\* Two activities of equal size that start at the same slot were both
\* scheduled, the later of the request first.
C13_Witness ==
    /\ pc = "done"
    /\ UniqueIds
    /\ Len(in_activities) = 2
    /\ Len(scheduled_activities) = 2
    /\ in_activities[1].time_slots = in_activities[2].time_slots
    /\ in_activities[1].students_count = in_activities[2].students_count
    /\ scheduled_activities[1].id = in_activities[2].id
    /\ scheduled_activities[2].id = in_activities[1].id

\* How many times a room is in free_rooms, and how many started activities
\* hold it.
TimesFree(r) == Cardinality({ k \in 1..Len(free_rooms) : free_rooms[k] = r })

Holders(r) ==
    Cardinality({ k \in 1..Len(started_activities) :
                      started_activities[k].room = r })

\* Every input room is free exactly once or held by exactly one started
\* activity, and the rooms are as many as the request has.
Conserved ==
    /\ \A i \in 1..Len(in_rooms) :
           TimesFree(in_rooms[i]) + Holders(in_rooms[i]) = 1
    /\ Len(free_rooms) + Len(started_activities) = Len(in_rooms)

\* A step of the simulation keeps the rooms conserved; a turn of the
\* admission loop that schedules moves the chosen room, and no other, from
\* free to held; the release phase moves the rooms of the activities that
\* leave started, and no other, from held to free.
ConservationStep ==
    /\ Simulating' => Conserved'
    /\ (AdmissionTurn /\ scheduled_activities' # scheduled_activities) =>
           \A i \in 1..Len(in_rooms) :
               LET r == in_rooms[i]
                   moved == IF r = Last(scheduled_activities').room THEN 1 ELSE 0
               IN  /\ TimesFree(r)' = TimesFree(r) - moved
                   /\ Holders(r)' = Holders(r) + moved
    /\ (AdmissionTurn /\ scheduled_activities' = scheduled_activities) =>
           /\ free_rooms' = free_rooms
           /\ started_activities' = started_activities
    /\ (pc = "release" /\ pc' = "admit") =>
           \A i \in 1..Len(in_rooms) :
               LET r == in_rooms[i]
                   back == Holders(r) - Holders(r)'
               IN  /\ back >= 0
                   /\ TimesFree(r)' = TimesFree(r) + back

\* C14 as stated: room conservation, given unique room names.
C14_RoomConservation == [][UniqueNames => ConservationStep]_vars

\* C14 amended: room conservation, given unique room names and unique
\* activity ids.
C14_ConservationUniqueIds ==
    [][(UniqueNames /\ UniqueIds) => ConservationStep]_vars

\* A room has been taken, given back and taken again while another stayed
\* free.
C14_Witness ==
    /\ UniqueNames
    /\ UniqueIds
    /\ pc = "loop"
    /\ Len(in_rooms) = 2
    /\ Len(scheduled_activities) = 2
    /\ Len(started_activities) = 1
    /\ Len(free_rooms) = 1
    /\ scheduled_activities[1].room = scheduled_activities[2].room

SetOf(acts) == { acts[k] : k \in 1..Len(acts) }

\* The started activities the release phase has taken out of started.
Released == SetOf(started_activities) \ SetOf(started_activities')

\* The admission loop of the iteration has finished.
EndOfIteration == pc = "admit" /\ activities_start_in_time_slot = <<>>

\* started is exactly the scheduled activities whose window holds the
\* current slot.
WindowHolds ==
    SetOf(started_activities) =
        { a \in SetOf(scheduled_activities) :
              /\ a.time_slots[1] <= current_time_slot
              /\ current_time_slot <= Last(a.time_slots) }

\* An activity is admitted in the iteration of its first slot; what the
\* release phase takes out of started are exactly the started activities
\* whose last slot is one before the current slot, and they leave pending as
\* well; at the end of an iteration started is the window of the slot.
OccupancyStep ==
    /\ (AdmissionTurn /\ scheduled_activities' # scheduled_activities) =>
           Last(scheduled_activities').time_slots[1] = current_time_slot
    /\ (pc = "release" /\ pc' = "admit") =>
           /\ Released = { a \in SetOf(started_activities) :
                               Last(a.time_slots) + 1 = current_time_slot }
           /\ \A a \in Released : a.id \notin IdsOf(activities')
    /\ EndOfIteration' => WindowHolds'

C19_NoUnderflow ==
    ~(pc = "release" /\ current_time_slot = 0 /\ started_activities # <<>>)

\* C16: internal errors are unreachable.  A turn of the admission loop pops
\* from a non-empty batch and calls get_best_room only with a room to choose
\* from: it never ends the call with the InternalServerError or a panic, and
\* the loop goes on.
C16_NoInternalError ==
    [][ (pc = "admit" /\ activities_start_in_time_slot # <<>>) =>
            /\ pc' = "admit"
            /\ pop_activity(activities_start_in_time_slot) # <<>>
            /\ scheduled_activities' # scheduled_activities =>
                   available_rooms(Last(activities_start_in_time_slot),
                                   free_rooms) # <<>>
      ]_vars

\* An admission loop has sent an activity without a fitting free room to
\* unscheduled and has given a room to another.
C16_Witness ==
    /\ pc = "admit"
    /\ activities_start_in_time_slot = <<>>
    /\ unscheduled_activities # <<>>
    /\ scheduled_activities # <<>>
    /\ wraps = 0

\* C17: max_simultaneus_activities returns, for every activity list, the
\* greatest number of activities whose time_slots contain one same value (0
\* when no activity has a slot), whatever the order of the list: the step
\* that counts does not panic, and the value it counts on the sorted list is
\* the maximum of the list as the request gave it.
C17_ExactMaximum ==
    [][ pc = "start" =>
            /\ pc' # "panic"
            /\ max_simultaneus' = MaxConcurrent(in_activities)
      ]_vars

\* The token text is one verify_token accepts: a JWT of the configured HMAC
\* algorithm, signed with the configured secret, not expired, of type access,
\* with a sub, a rol and a positive user_id.
TokenAccepted(text) ==
    /\ text.kind = "jwt"
    /\ config.jwt_algorithm \in {"HS256", "HS384", "HS512"}
    /\ text.alg = config.jwt_algorithm
    /\ text.key = config.jwt_secret
    /\ ~text.expired
    /\ text.claims.token_type = "access"
    /\ text.claims.sub # ""
    /\ text.claims.rol # ""
    /\ text.claims.user_id > 0

\* The request carries a Bearer token that verify_token accepts.
CarriesAcceptedToken ==
    /\ http_request # <<>>
    /\ http_request.authorization # <<>>
    /\ LET value == http_request.authorization[1]
       IN  /\ value.ascii
           /\ Len(value.parts) = 2
           /\ value.parts[1] \in {"Bearer", "bearer"}
           /\ TokenAccepted(value.parts[2])

\* The request is an administrator's: it carries an accepted token whose rol
\* is administrator in any letter case.
Authorised ==
    /\ CarriesAcceptedToken
    /\ http_request.authorization[1].parts[2].claims.rol
           \in {"administrator", "Administrator"}

ControllerRan == Contains(ran, "rooms_scheduler_controller")

\* C11: authorisation gate.  The controller, and with it run_scheduler, runs
\* only for a request that carries an accepted Bearer token whose rol is
\* administrator; every other request that has been served is answered
\* Unauthorized and the scheduler has not run for it.
C11_AuthorisationGate ==
    /\ ControllerRan => Authorised
    /\ (ran # <<>> /\ ~Authorised) =>
           /\ http_response = <<"Unauthorized">>
           /\ pc = "responded"
           /\ ~ControllerRan
           /\ LocalsFresh

\* A request with an accepted token of a student has been answered
\* Unauthorized.
C11_Witness ==
    /\ ran # <<>>
    /\ CarriesAcceptedToken
    /\ http_request.authorization[1].parts[2].claims.rol = "student"
    /\ http_response = <<"Unauthorized">>
    /\ ~ControllerRan

\* C18: middleware ordering.  For a request with a valid access token of an
\* administrator, require_access_token runs before
\* require_administrator_role, both let it through, and it reaches
\* rooms_scheduler_controller.
C18_MiddlewareOrdering ==
    (ran # <<>> /\ Authorised) =>
        /\ ran = <<"require_access_token", "require_administrator_role",
                   "rooms_scheduler_controller">>
        /\ http_response # <<"Unauthorized">>


====
